---- MODULE Spec2Model ----
(***************************************************************************)
(* Model of the AIMD congestion controller of interledger-stream           *)
(* (crates/interledger-stream/src/congestion.rs).                          *)
(*                                                                         *)
(* The unsigned 64-bit amount space is scaled to WordBits bits and the     *)
(* 53-bit significand of f64 to MantBits bits, so that saturation, wrap,   *)
(* overflow and the rounding of `as f64` all happen inside the bounds.     *)
(***************************************************************************)
EXTENDS Integers, Sequences, FiniteSets

\* ---------------------------------------------------------------- bounds
\* Width of the scaled u64.
WordBits == 3
\* Width of the scaled f64 significand (53 for the real f64).
MantBits == 2
\* Largest number of prepared packets the caller keeps unresolved.
MaxOutstanding == 2

RECURSIVE Pow2(_)
Pow2(n) == IF n = 0 THEN 1 ELSE 2 * Pow2(n - 1)

\* u64::max_value()
U64_MAX == Pow2(WordBits) - 1
U64 == 0..U64_MAX

Min(a, b) == IF a <= b THEN a ELSE b
Max(a, b) == IF a >= b THEN a ELSE b

\* ------------------------------------------------------- inputs of calls
\* start_amount and increase_amount given to new()
StartAmounts == {0, 1, 3, 5, U64_MAX - 1}
IncreaseAmounts == {1, U64_MAX}
\* decrease_factor given to new(): the f64 values 0.5 and 2.0 as fractions
\* <<numerator, denominator>>
DecreaseFactors == {<<1, 2>>, <<2, 1>>}
\* amounts passed to prepare, fulfill and reject
Amounts == {0, 1, 2, U64_MAX}
\* payloads of a reject: a sequence of u64 words (8 bytes each);
\* <<amount_received, max_amount>> is a well-formed MaxPacketAmountDetails
Payloads == {<< >>, <<0, 1>>, <<1, 1>>, <<1, 2>>, <<2, 1>>}

T04_INSUFFICIENT_LIQUIDITY == "T04"
F08_AMOUNT_TOO_LARGE == "F08"
F99_APPLICATION_ERROR == "F99"
ErrorCodes == {T04_INSUFFICIENT_LIQUIDITY, F08_AMOUNT_TOO_LARGE, F99_APPLICATION_ERROR}
\* reject signals <<code, payload>>: every payload with the amount-too-large
\* code, an empty and a well-formed one with the codes that ignore it
Rejects ==
    {<<F08_AMOUNT_TOO_LARGE, d>> : d \in Payloads}
        \cup {<<c, d>> : c \in ErrorCodes \ {F08_AMOUNT_TOO_LARGE}, d \in {<< >>, <<1, 2>>}}

\* Option<u64>
None == << >>
Some(v) == <<v>>

\* ----------------------------------------------------------------- state
VARIABLES
    state,             \* CongestionState
    increase_amount,   \* u64
    decrease_factor,   \* f64, as a fraction <<p, q>>
    max_packet_amount, \* Option<u64>
    amount_in_flight,  \* u64
    max_in_flight,     \* u64
    overflow_checks,   \* build profile: TRUE = overflow panics, FALSE = wraps
    fault,             \* arithmetic event of the last call
    outstanding,       \* caller's prepared, unresolved amounts: amount -> count
    seen_T04,          \* an insufficient-liquidity reject has been processed
    last_call          \* the last call made on the controller

fields == <<state, increase_amount, decrease_factor, max_packet_amount,
            amount_in_flight, max_in_flight>>
vars == <<state, increase_amount, decrease_factor, max_packet_amount,
          amount_in_flight, max_in_flight, overflow_checks, fault,
          outstanding, seen_T04, last_call>>

\* ------------------------------------------------------------ arithmetic
\* u64 +, -, * : the result stored when the operation wraps
\* mutant of wrapping_add: `=` written for `+=`
wrapping_add_assigns(a, b) == b % (U64_MAX + 1)
wrapping_add(a, b) == (a + b) % (U64_MAX + 1)
\* mutant of wrapping_sub: the subtraction is left out
wrapping_sub_keeps(a, b) == a
wrapping_sub(a, b) == (a - b + U64_MAX + 1) % (U64_MAX + 1)
wrapping_mul(a, b) == (a * b) % (U64_MAX + 1)
\* mutant of saturating_sub: a plain wrapping subtraction
saturating_sub_wraps(a, b) == (a - b + U64_MAX + 1) % (U64_MAX + 1)
saturating_sub(a, b) == IF a >= b THEN a - b ELSE 0

\* The f64 nearest to n/d (n >= 0, d > 0), round-half-to-even on a
\* significand of MantBits bits, as <<m, e>> standing for m * 2^e.
RECURSIVE f64_round(_, _, _)
f64_round(n, d, e) ==
    IF n = 0 THEN <<0, 0>>
    ELSE IF n >= Pow2(MantBits) * d THEN f64_round(n, 2 * d, e + 1)
    ELSE IF n < Pow2(MantBits - 1) * d THEN f64_round(2 * n, d, e - 1)
    ELSE LET m0 == n \div d
             r  == n % d
             up == (2 * r > d) \/ (2 * r = d /\ m0 % 2 = 1)
         IN  <<IF up THEN m0 + 1 ELSE m0, e>>

\* `x as f64` for a u64 x: an integer value (possibly U64_MAX + 1)
u64_as_f64(x) ==
    LET f == f64_round(x, 1, 0)
    IN  IF f[2] >= 0 THEN f[1] * Pow2(f[2]) ELSE x

\* `a / decrease_factor` for an integer-valued f64 a and df = p/q
f64_div(a, df) == f64_round(a * df[2], df[1], 0)

\* f64::floor of a non-negative f64
f64_floor(f) == IF f[2] >= 0 THEN f ELSE <<f[1] \div Pow2(-f[2]), 0>>

\* `f as u64`: truncates toward zero and saturates at u64::max_value()
f64_as_u64(f) ==
    IF f[2] >= 0 THEN Min(f[1] * Pow2(f[2]), U64_MAX)
    ELSE f[1] \div Pow2(-f[2])

\* MaxPacketAmountDetails::from_bytes: Ok iff the payload holds both fields
from_bytes_is_ok(data) == Len(data) = 2
amount_received(data) == data[1]
max_amount(data) == data[2]

\* the call did not return: an integer overflow under overflow checks, or a
\* division by zero under any profile
Panicked == fault # "none" /\ (overflow_checks \/ fault = "div_by_zero")

\* caller-side bookkeeping
RECURSIVE SumOver(_, _)
SumOver(f, S) ==
    IF S = {} THEN 0
    ELSE LET a == CHOOSE x \in S : TRUE
         IN  a * f[a] + SumOver(f, S \ {a})
OutstandingSum == SumOver(outstanding, Amounts)
RECURSIVE CountOver(_, _)
CountOver(f, S) ==
    IF S = {} THEN 0
    ELSE LET a == CHOOSE x \in S : TRUE
         IN  f[a] + CountOver(f, S \ {a})
OutstandingCount == CountOver(outstanding, Amounts)

Call(op, amount, code, parsed, ret) ==
    [op |-> op, amount |-> amount, code |-> code, parsed |-> parsed, ret |-> ret]

\* ------------------------------------------------------------ operations
\* CongestionController::new
new(start_amount, inc, df) ==
    /\ state = "SlowStart"
    /\ increase_amount = inc
    /\ decrease_factor = df
    /\ max_packet_amount = None
    /\ amount_in_flight = 0
    /\ max_in_flight = start_amount

Init ==
    /\ \E s \in StartAmounts, i \in IncreaseAmounts, df \in DecreaseFactors :
          new(s, i, df)
    /\ overflow_checks \in BOOLEAN
    /\ fault = "none"
    /\ outstanding = [a \in Amounts |-> 0]
    /\ seen_T04 = FALSE
    /\ last_call = Call("new", 0, "", FALSE, 0)

\* mutant of get_max_packet_amount_value: unwrap_or_default()
get_max_packet_amount_value_default ==
    IF max_packet_amount = None THEN 0 ELSE max_packet_amount[1]
\* get_max_packet_amount(&self)
get_max_packet_amount_value ==
    IF max_packet_amount = None THEN U64_MAX ELSE max_packet_amount[1]

get_max_packet_amount ==
    /\ ~Panicked
    /\ last_call' = Call("get_max_packet_amount", 0, "", FALSE,
                         get_max_packet_amount_value)
    /\ UNCHANGED <<fields, overflow_checks, fault, seen_T04>>

\* get_amount_left_in_window(&self)
get_amount_left_in_window_value ==
    saturating_sub(max_in_flight, amount_in_flight)

get_amount_left_in_window ==
    /\ ~Panicked
    /\ last_call' = Call("get_amount_left_in_window", 0, "", FALSE,
                         get_amount_left_in_window_value)
    /\ UNCHANGED <<fields, overflow_checks, fault, seen_T04>>

\* prepare(&mut self, amount)
prepare(amount) ==
    /\ ~Panicked
    /\ last_call' = Call("prepare", amount, "", FALSE, 0)
    /\ LET overflow == amount > 0 /\ amount_in_flight + amount > U64_MAX
       IN  /\ fault' = IF overflow THEN "add_overflow" ELSE "none"
           /\ amount_in_flight' =
                 IF amount = 0 \/ (overflow /\ overflow_checks)
                 THEN amount_in_flight
                 ELSE wrapping_add(amount_in_flight, amount)
    /\ UNCHANGED <<state, increase_amount, decrease_factor, max_packet_amount,
                   max_in_flight, overflow_checks, seen_T04>>

\* mutant of grown_window: doubling without the saturation test
grown_window_double_wraps(st, m, inc) ==
    IF st = "SlowStart"
    THEN (m * 2) % (U64_MAX + 1)
    ELSE IF U64_MAX - inc >= m THEN m + inc ELSE U64_MAX
\* mutant of grown_window: addition without the saturation test
grown_window_add_wraps(st, m, inc) ==
    IF st = "SlowStart"
    THEN IF U64_MAX \div 2 >= m THEN m * 2 ELSE U64_MAX
    ELSE (m + inc) % (U64_MAX + 1)
\* mutant of grown_window: the additive step subtracts
grown_window_subtracts(st, m, inc) ==
    IF st = "SlowStart"
    THEN IF U64_MAX \div 2 >= m THEN m * 2 ELSE U64_MAX
    ELSE IF m >= inc THEN m - inc ELSE 0
\* the window after a fulfill (lines 77-99)
grown_window(st, m, inc) ==
    IF st = "SlowStart"
    THEN IF U64_MAX \div 2 >= m THEN m * 2 ELSE U64_MAX
    ELSE IF U64_MAX - inc >= m THEN m + inc ELSE U64_MAX

\* fulfill(&mut self, prepare_amount)
fulfill(prepare_amount) ==
    /\ ~Panicked
    /\ last_call' = Call("fulfill", prepare_amount, "", FALSE, 0)
    /\ LET underflow == prepare_amount > amount_in_flight
       IN  IF underflow /\ overflow_checks
           THEN /\ fault' = "sub_underflow"
                /\ UNCHANGED <<amount_in_flight, max_in_flight>>
           ELSE /\ fault' = IF underflow THEN "sub_underflow" ELSE "none"
                /\ amount_in_flight' = wrapping_sub(amount_in_flight, prepare_amount)
                /\ max_in_flight' = grown_window(state, max_in_flight, increase_amount)
    /\ UNCHANGED <<state, increase_amount, decrease_factor, max_packet_amount,
                   overflow_checks, seen_T04>>

\* mutant of rejected_state: a reject with another code restarts slow start
rejected_state_restarts(code, st) ==
    IF code = T04_INSUFFICIENT_LIQUIDITY THEN "AvoidCongestion" ELSE "SlowStart"
\* mutant of rejected_state: the insufficient-liquidity arm forgets the phase
rejected_state_forgets(code, st) == st
\* mutant of rejected_state: the phase is set before the match, for any code
rejected_state_any_code(code, st) == "AvoidCongestion"
\* the phase after the match on reject.code() (lines 107-109, 116, 134)
rejected_state(code, st) ==
    IF code = T04_INSUFFICIENT_LIQUIDITY THEN "AvoidCongestion" ELSE st

\* the window after an insufficient-liquidity reject (lines 110-113)
shrunk_window(m, df) ==
    Max(f64_as_u64(f64_floor(f64_div(u64_as_f64(m), df))), 1)

\* the cap after an amount-too-large reject without details (lines 128-131)
shrunk_max_packet_amount(cap, df) ==
    IF cap = None THEN None
    ELSE Some(f64_as_u64(f64_div(u64_as_f64(cap[1]), df)))

\* the cap after an amount-too-large reject with details (lines 120-125)
capped_max_packet_amount(cap, new_max_packet_amount) ==
    IF cap = None THEN Some(new_max_packet_amount)
    ELSE Some(Min(cap[1], new_max_packet_amount))

\* reject(&mut self, prepare_amount, reject)
reject(prepare_amount, code, data) ==
    /\ ~Panicked
    /\ last_call' = Call("reject", prepare_amount, code,
                         code = F08_AMOUNT_TOO_LARGE /\ from_bytes_is_ok(data), 0)
    /\ LET underflow == prepare_amount > amount_in_flight
           sub_fault == IF underflow THEN "sub_underflow" ELSE "none"
           product   == prepare_amount * max_amount(data)
       IN  IF underflow /\ overflow_checks
           THEN /\ fault' = "sub_underflow"
                /\ UNCHANGED <<state, max_packet_amount, amount_in_flight,
                               max_in_flight, seen_T04>>
           ELSE /\ amount_in_flight' = wrapping_sub(amount_in_flight, prepare_amount)
                /\ state' = rejected_state(code, state)
                /\ CASE code = T04_INSUFFICIENT_LIQUIDITY ->
                          /\ max_in_flight' = shrunk_window(max_in_flight, decrease_factor)
                          /\ seen_T04' = TRUE
                          /\ fault' = sub_fault
                          /\ UNCHANGED max_packet_amount
                     [] code = F08_AMOUNT_TOO_LARGE /\ from_bytes_is_ok(data) ->
                          /\ IF product > U64_MAX /\ overflow_checks
                             THEN /\ fault' = "mul_overflow"
                                  /\ UNCHANGED max_packet_amount
                             ELSE IF amount_received(data) = 0
                             THEN /\ fault' = "div_by_zero"
                                  /\ UNCHANGED max_packet_amount
                             ELSE /\ fault' = IF product > U64_MAX THEN "mul_overflow"
                                              ELSE sub_fault
                                  /\ max_packet_amount' =
                                        capped_max_packet_amount(max_packet_amount,
                                            wrapping_mul(prepare_amount, max_amount(data))
                                                \div amount_received(data))
                          /\ UNCHANGED <<max_in_flight, seen_T04>>
                     [] code = F08_AMOUNT_TOO_LARGE /\ ~from_bytes_is_ok(data) ->
                          /\ max_packet_amount' =
                                shrunk_max_packet_amount(max_packet_amount, decrease_factor)
                          /\ fault' = sub_fault
                          /\ UNCHANGED <<max_in_flight, seen_T04>>
                     [] OTHER ->
                          /\ fault' = sub_fault
                          /\ UNCHANGED <<max_packet_amount, max_in_flight, seen_T04>>
    /\ UNCHANGED <<increase_amount, decrease_factor, overflow_checks>>

\* ---------------------------------------------------------------- callers
\* A caller bound by no protocol: any call with any argument.
Next ==
    \/ get_max_packet_amount /\ UNCHANGED outstanding
    \/ get_amount_left_in_window /\ UNCHANGED outstanding
    \/ \E amount \in Amounts : prepare(amount) /\ UNCHANGED outstanding
    \/ \E prepare_amount \in Amounts : fulfill(prepare_amount) /\ UNCHANGED outstanding
    \/ \E prepare_amount \in Amounts, r \in Rejects :
          reject(prepare_amount, r[1], r[2]) /\ UNCHANGED outstanding

Spec == Init /\ [][Next]_vars

\* A caller that keeps the protocol of prepare: every prepared amount is
\* resolved exactly once, by fulfill or reject with the same value.
Book(amount) ==
    /\ OutstandingCount < MaxOutstanding
    /\ outstanding' = IF Panicked' THEN outstanding
                      ELSE [outstanding EXCEPT ![amount] = @ + 1]
Resolve(prepare_amount) ==
    /\ outstanding[prepare_amount] > 0
    /\ outstanding' = [outstanding EXCEPT ![prepare_amount] = @ - 1]

NextCaller ==
    \/ get_max_packet_amount /\ UNCHANGED outstanding
    \/ get_amount_left_in_window /\ UNCHANGED outstanding
    \/ \E amount \in Amounts : prepare(amount) /\ Book(amount)
    \/ \E prepare_amount \in Amounts : fulfill(prepare_amount) /\ Resolve(prepare_amount)
    \/ \E prepare_amount \in Amounts, r \in Rejects :
          reject(prepare_amount, r[1], r[2]) /\ Resolve(prepare_amount)

SpecCaller == Init /\ [][NextCaller]_vars

TypeOK ==
    /\ state \in {"SlowStart", "AvoidCongestion"}
    /\ increase_amount \in U64
    /\ max_packet_amount \in {None} \cup {Some(v) : v \in U64}
    /\ amount_in_flight \in U64
    /\ max_in_flight \in U64

\* ----------------------------------------------------------------- claims
\* the last call returned to its caller
Returned == ~Panicked
IsCall(op) == last_call.op = op
IsReject(code) == last_call.op = "reject" /\ last_call.code = code

\* C1: max_in_flight >= 1 in every state reachable from new() by prepare,
\* fulfill and reject calls, for every start_amount and increase_amount.
C1_WindowAtLeastOne == max_in_flight >= 1

\* C2: the phase is one-way: it starts as SlowStart, only an
\* insufficient-liquidity reject changes it, such a reject that returns
\* leaves it AvoidCongestion, and AvoidCongestion is never left.
C2_PhaseOneWay ==
    /\ IsCall("new") => state = "SlowStart"
    /\ [][/\ state' # state =>
                IsReject(T04_INSUFFICIENT_LIQUIDITY)' /\ state' = "AvoidCongestion"
          /\ IsReject(T04_INSUFFICIENT_LIQUIDITY)' /\ Returned' =>
                state' = "AvoidCongestion"
          /\ state = "AvoidCongestion" => state' = "AvoidCongestion"]_vars
C2_Witness ==
    /\ state = "AvoidCongestion"
    /\ IsReject(F99_APPLICATION_ERROR)
    /\ fault = "none"

\* C3: max_packet_amount is absent until the first amount-too-large reject,
\* and once present no step of any kind increases it.
C3_CapNeverIncreases ==
    [][/\ max_packet_amount = None /\ max_packet_amount' # None =>
             IsReject(F08_AMOUNT_TOO_LARGE)'
       /\ max_packet_amount # None =>
             /\ max_packet_amount' # None
             /\ max_packet_amount'[1] <= max_packet_amount[1]]_vars

\* C4: when the caller resolves each prepared amount exactly once with the
\* same value, no call overflows, underflows or divides by zero.
C4_NumericSafety == fault = "none"

\* C5: when the caller resolves each prepared amount exactly once,
\* amount_in_flight is the sum of the amounts prepared and not yet resolved.
C5_InFlightIsOutstandingSum == amount_in_flight = OutstandingSum

\* C6: get_amount_left_in_window() returns max_in_flight - amount_in_flight
\* when amount_in_flight <= max_in_flight and 0 otherwise, and changes no
\* field.
C6_AmountLeftInWindow ==
    [][IsCall("get_amount_left_in_window")' =>
          /\ last_call'.ret = IF amount_in_flight <= max_in_flight
                              THEN max_in_flight - amount_in_flight
                              ELSE 0
          /\ UNCHANGED fields]_vars
C6_Witness ==
    /\ IsCall("get_amount_left_in_window")
    /\ seen_T04
    /\ amount_in_flight > max_in_flight
    /\ last_call.ret = 0

\* C7 as stated: after prepare(x) the amount left in the window is the
\* amount left before the call minus x, for every state and every x
\* (read on the windows of at least 1 that the data model allows).
C7_PrepareDecreasesLeftByX ==
    [][max_in_flight >= 1 /\ IsCall("prepare")' /\ Returned' =>
          get_amount_left_in_window_value' =
              get_amount_left_in_window_value - last_call'.amount]_vars
\* C7 amended: prepare(x) with x <= get_amount_left_in_window() returns and
\* leaves the amount left in the window exactly x smaller.
C7_PrepareWithinWindow ==
    [][IsCall("prepare")' /\ last_call'.amount <= get_amount_left_in_window_value =>
          /\ Returned'
          /\ get_amount_left_in_window_value' =
                get_amount_left_in_window_value - last_call'.amount]_vars
C7_Witness ==
    /\ IsCall("prepare")
    /\ last_call.amount > 0
    /\ fault = "none"
    /\ amount_in_flight > last_call.amount
    /\ amount_in_flight <= max_in_flight

\* C8: once an insufficient-liquidity reject has been processed, every
\* later fulfill that returns sets max_in_flight to
\* min(max_in_flight + increase_amount, u64::MAX), never to the double.
C8_AdditiveAfterLiquidityReject ==
    [][seen_T04 /\ IsCall("fulfill")' /\ Returned' =>
          max_in_flight' = Min(max_in_flight + increase_amount, U64_MAX)]_vars
C8_Witness ==
    /\ seen_T04
    /\ IsCall("fulfill")
    /\ fault = "none"
    /\ increase_amount = 1
    /\ max_in_flight = 3

\* C9: a fulfill that returns in SlowStart sets max_in_flight to
\* min(2 * max_in_flight, u64::MAX) and leaves state and max_packet_amount.
C9_SlowStartDoubling ==
    [][state = "SlowStart" /\ IsCall("fulfill")' /\ Returned' =>
          /\ max_in_flight' = Min(2 * max_in_flight, U64_MAX)
          /\ UNCHANGED <<state, max_packet_amount>>]_vars
C9_Witness ==
    /\ state = "SlowStart"
    /\ IsCall("fulfill")
    /\ fault = "none"
    /\ max_in_flight = U64_MAX
    /\ max_packet_amount # None

\* C10: a fulfill that returns in AvoidCongestion sets max_in_flight to
\* min(max_in_flight + increase_amount, u64::MAX) and leaves state and
\* max_packet_amount.
C10_AvoidCongestionAdditive ==
    [][state = "AvoidCongestion" /\ IsCall("fulfill")' /\ Returned' =>
          /\ max_in_flight' = Min(max_in_flight + increase_amount, U64_MAX)
          /\ UNCHANGED <<state, max_packet_amount>>]_vars
C10_Witness ==
    /\ state = "AvoidCongestion"
    /\ IsCall("fulfill")
    /\ fault = "none"
    /\ max_in_flight = U64_MAX
    /\ increase_amount = U64_MAX
    /\ max_packet_amount # None

\* floor(m / decrease_factor) in exact arithmetic, for df = p/q, read as
\* u64::MAX when it is above the u64 range
ExactQuotient(m, df) == Min((m * df[2]) \div df[1], U64_MAX)

\* C11: an insufficient-liquidity reject that returns sets max_in_flight to
\* max(floor(max_in_flight / decrease_factor), 1) and leaves
\* max_packet_amount unchanged.
C11_MultiplicativeDecrease ==
    [][IsReject(T04_INSUFFICIENT_LIQUIDITY)' /\ Returned' =>
          /\ max_in_flight' = Max(ExactQuotient(max_in_flight, decrease_factor), 1)
          /\ UNCHANGED max_packet_amount]_vars

\* C12: an amount-too-large reject of a booked amount whose payload parses
\* returns and sets max_packet_amount to min(old cap or +infinity,
\* prepare_amount * max_amount / amount_received), the division truncating;
\* state and max_in_flight are unchanged.
C12_CapFromDetails ==
    [][\A x \in Amounts, d \in Payloads :
          /\ from_bytes_is_ok(d)
          /\ x <= amount_in_flight
          /\ reject(x, F08_AMOUNT_TOO_LARGE, d)
          => /\ Returned'
             /\ amount_received(d) # 0
             /\ max_packet_amount' =
                   LET candidate == (x * max_amount(d)) \div amount_received(d)
                   IN  IF max_packet_amount = None THEN Some(candidate)
                       ELSE Some(Min(max_packet_amount[1], candidate))
             /\ UNCHANGED <<state, max_in_flight>>]_vars

\* C13: an amount-too-large reject of a booked amount whose payload does not
\* parse returns; a cap that is present becomes cap / decrease_factor
\* truncated to an integer, an absent cap stays absent, state and
\* max_in_flight are unchanged and amount_in_flight drops by prepare_amount.
C13_CapShrinkWithoutDetails ==
    [][/\ IsReject(F08_AMOUNT_TOO_LARGE)'
       /\ ~last_call'.parsed
       /\ last_call'.amount <= amount_in_flight
       => /\ Returned'
          /\ max_packet_amount' =
                IF max_packet_amount = None THEN None
                ELSE Some(ExactQuotient(max_packet_amount[1], decrease_factor))
          /\ UNCHANGED <<state, max_in_flight>>
          /\ amount_in_flight' = amount_in_flight - last_call'.amount]_vars

IsResolve == IsCall("fulfill") \/ IsCall("reject")

\* C14: fulfill(x) or reject(x, r) with x > amount_in_flight does not
\* return, and does not modify state, max_in_flight or max_packet_amount.
C14_UnderflowFaults ==
    [][IsResolve' /\ last_call'.amount > amount_in_flight =>
          /\ Panicked'
          /\ UNCHANGED <<state, max_in_flight, max_packet_amount>>]_vars

\* C15: a reject(x, r) with a code other than insufficient-liquidity and
\* amount-too-large and x <= amount_in_flight returns, reduces
\* amount_in_flight by x and leaves state, max_in_flight and
\* max_packet_amount unchanged.
C15_OtherCodesOnlyResolve ==
    [][IsReject(F99_APPLICATION_ERROR)' /\ last_call'.amount <= amount_in_flight =>
          /\ Returned'
          /\ amount_in_flight' = amount_in_flight - last_call'.amount
          /\ UNCHANGED <<state, max_in_flight, max_packet_amount>>]_vars
C15_Witness ==
    /\ IsReject(F99_APPLICATION_ERROR)
    /\ last_call.amount > 0
    /\ fault = "none"
    /\ state = "SlowStart"
    /\ max_packet_amount # None
    /\ amount_in_flight > 0

\* C16: for x <= amount_in_flight, fulfill(x) and reject(x, r) with any
\* code and payload decrease amount_in_flight by exactly x.
C16_ResolveDecreasesInFlight ==
    [][IsResolve' /\ last_call'.amount <= amount_in_flight =>
          amount_in_flight' = amount_in_flight - last_call'.amount]_vars
C16_Witness ==
    /\ IsReject(T04_INSUFFICIENT_LIQUIDITY)
    /\ last_call.amount = 2
    /\ fault = "none"
    /\ amount_in_flight = 1
    /\ max_in_flight = 1

\* C17: prepare(amount) returns, adds amount to amount_in_flight whatever
\* the window and the cap are, and leaves state, max_in_flight and
\* max_packet_amount unchanged.
C17_PrepareBooksWithoutCap ==
    [][IsCall("prepare")' =>
          /\ Returned'
          /\ amount_in_flight' = amount_in_flight + last_call'.amount
          /\ UNCHANGED <<state, max_in_flight, max_packet_amount>>]_vars

\* C18: get_max_packet_amount() returns the cap when it is set and u64::MAX
\* when it is absent and changes no field; the cap is absent from new()
\* until an amount-too-large reject with a payload that parses.
C18_MaxPacketAmountQuery ==
    /\ IsCall("new") => max_packet_amount = None
    /\ [][/\ IsCall("get_max_packet_amount")' =>
                /\ last_call'.ret = IF max_packet_amount = None THEN U64_MAX
                                    ELSE max_packet_amount[1]
                /\ UNCHANGED fields
          /\ max_packet_amount = None /\ max_packet_amount' # None =>
                IsReject(F08_AMOUNT_TOO_LARGE)' /\ last_call'.parsed]_vars
C18_Witness ==
    /\ IsCall("get_max_packet_amount")
    /\ max_packet_amount = None
    /\ last_call.ret = U64_MAX
    /\ amount_in_flight > 0

\* C19: with nothing in flight the sender can always send at least 1: the
\* smaller of the amount left in the window and the per-packet cap is >= 1
\* (read on the windows of at least 1 that the data model allows).
C19_NeverStalled ==
    amount_in_flight = 0 /\ max_in_flight >= 1 =>
        Min(get_amount_left_in_window_value, get_max_packet_amount_value) >= 1

====
